---- MODULE Spec2Model ----
(***************************************************************************)
(* A model of lsdb's Catalog (src/src/lsdb/catalog/catalog.py) and of the  *)
(* DataframeCatalogLoader                                                  *)
(* (src/src/lsdb/loaders/dataframe/dataframe_catalog_loader.py).           *)
(*                                                                         *)
(* A catalog is a lazily evaluated, partitioned table: a sequence of       *)
(* deferred partitions (_ddf), a dictionary from HEALPix pixels to the     *)
(* ordinal of the pixel's partition (_ddf_pixel_map) and the hipscat       *)
(* structure (catalog_info + the list of pixels).  The operations are      *)
(* load_catalog, get_partition_index, cone_search, crossmatch and compute. *)
(*                                                                         *)
(* Scaling.  The sky has BASE_PIXELS base pixels (12 in HEALPix), the      *)
(* histogram order is HISTOGRAM_ORDER (10 in the code) and the order of    *)
(* the hipscat index is taken to be the histogram order (19 in hipscat),   *)
(* so that a row's index is its histogram pixel followed by the counter    *)
(* that hipscat uses to tell apart rows of one pixel.                      *)
(***************************************************************************)
EXTENDS Integers, Sequences, FiniteSets, TLC

VARIABLES
    df,        \* the pandas DataFrame the loaders are given: the row positions
    cats,      \* slot -> the Catalog object bound to it (or NoCatalog)
    nextId,    \* the next fresh Python object identity
    ret,       \* what the last call did: operation, arguments, outcome
    executed,  \* the per-partition tasks that have been run so far
    xm         \* the crossmatch algorithm on one pair of partitions: its inputs
               \* and the rows of its last run

vars == <<df, cats, nextId, ret, executed, xm>>

---------------------------------------------------------------------------
(* Bounds of the model *)

\* the order of the object histogram (DataframeCatalogLoader.HISTOGRAM_ORDER)
HISTOGRAM_ORDER == 1
\* the number of order-0 pixels of the sky
BASE_PIXELS == 1
\* the largest number of rows of the input table
MaxRows == 2
\* the largest number of Catalog objects built in one run
MaxCatalogs == 3

---------------------------------------------------------------------------
(* HEALPix pixels and the hipscat index *)

\* hp.order2npix
npix(order) == BASE_PIXELS * 4^order

HealpixPixel(order, pixel) == [order |-> order, pixel |-> pixel]

HistPixels == 0..(npix(HISTOGRAM_ORDER) - 1)

\* the values of the counter that follows the pixel in a hipscat index
SLOTS == MaxRows

\* hipscat_id.healpix_to_hipscat_id: the lowest index of pixel (order, pixel)
healpix_to_hipscat_id(order, pixel) ==
    pixel * 4^(HISTOGRAM_ORDER - order) * SLOTS

\* hipscat_id.compute_hipscat_id on the rows of table t (t[i] is the histogram
\* pixel the i-th row's (ra, dec) falls in): the pixel, then the count of the
\* earlier rows of the same pixel
compute_hipscat_id(t) ==
    [i \in DOMAIN t |->
        healpix_to_hipscat_id(HISTOGRAM_ORDER, t[i])
            + Cardinality({j \in 1..(i - 1) : t[j] = t[i]})]

\* the input tables: 1..MaxRows rows, listed by position
Tables ==
    UNION { { t \in [1..n -> HistPixels] :
                \A i \in 1..(n - 1) : t[i] <= t[i + 1] } : n \in 1..MaxRows }

---------------------------------------------------------------------------
(* DataframeCatalogLoader *)

None == [order |-> -1, pixel |-> -1]

\* _set_hipscat_index: the frame indexed by _hipscat_index, as the set of its
\* index values (compute_hipscat_id makes them distinct)
_set_hipscat_index(t) == { compute_hipscat_id(t)[i] : i \in DOMAIN t }

\* generate_histogram: the number of rows in each pixel of order HISTOGRAM_ORDER
generate_histogram(t) ==
    [p \in HistPixels |-> Cardinality({i \in DOMAIN t : t[i] = p})]

\* the order-HISTOGRAM_ORDER pixels inside pixel (order, pixel)
Subsumed(order, pixel) ==
    { p \in HistPixels : p \div 4^(HISTOGRAM_ORDER - order) = pixel }

RECURSIVE SumOver(_, _)
SumOver(histogram, S) ==
    IF S = {} THEN 0
    ELSE LET p == CHOOSE q \in S : TRUE
         IN histogram[p] + SumOver(histogram, S \ {p})

\* hipscat's nested sums: the count of pixel (order, pixel)
nested_sums(histogram, order, pixel) == SumOver(histogram, Subsumed(order, pixel))

\* hipscat's alignment of pixel (order, pixel): the pixel of its ancestor when an
\* ancestor is aligned, nothing for an empty pixel, the pixel itself when its
\* count is within the threshold or when it is an oversized histogram cell
RECURSIVE alignment(_, _, _, _, _)
alignment(histogram, lowest_order, threshold, order, pixel) ==
    LET parent == IF order > lowest_order
                  THEN alignment(histogram, lowest_order, threshold,
                                 order - 1, pixel \div 4)
                  ELSE None
        count == nested_sums(histogram, order, pixel)
    IN  IF parent # None THEN parent
        ELSE IF count = 0 THEN None
        ELSE IF count <= threshold THEN HealpixPixel(order, pixel)
        ELSE IF order = HISTOGRAM_ORDER THEN HealpixPixel(order, pixel)
        ELSE None

\* a < b in the order the destination pixels are enumerated in
PixelBefore(a, b) ==
    \/ a.order < b.order
    \/ a.order = b.order /\ a.pixel < b.pixel

RECURSIVE SortPixels(_)
SortPixels(S) ==
    IF S = {} THEN << >>
    ELSE LET m == CHOOSE a \in S : \A b \in S \ {a} : PixelBefore(a, b)
         IN <<m>> \o SortPixels(S \ {m})

RECURSIVE SortInts(_)
SortInts(S) ==
    IF S = {} THEN << >>
    ELSE LET m == CHOOSE a \in S : \A b \in S : a <= b
         IN <<m>> \o SortInts(S \ {m})

\* hc.pixel_math.compute_pixel_map, as _compute_pixel_map calls it: the ordered
\* dictionary from each destination pixel to (its count, the non-empty histogram
\* pixels inside it, ascending)
compute_pixel_map(histogram, lowest_order, threshold) ==
    LET dest == { alignment(histogram, lowest_order, threshold, HISTOGRAM_ORDER, p)
                    : p \in HistPixels } \ {None}
        keys == SortPixels(dest)
    IN  [k \in DOMAIN keys |->
            [pixel |-> keys[k],
             num_points |-> nested_sums(histogram, keys[k].order, keys[k].pixel),
             pixels |-> SortInts({ p \in Subsumed(keys[k].order, keys[k].pixel) :
                                     histogram[p] > 0 })]]

_compute_pixel_map(t, lowest_order, threshold) ==
    compute_pixel_map(generate_histogram(t), lowest_order, threshold)

\* a selection that stops at the index of the highest listed pixel
_get_dataframe_for_healpix_open(indexed, pixels) ==
    LET left_bound == healpix_to_hipscat_id(HISTOGRAM_ORDER, pixels[1])
        right_bound == healpix_to_hipscat_id(HISTOGRAM_ORDER, pixels[Len(pixels)])
    IN  { i \in indexed : i >= left_bound /\ i < right_bound }

\* _get_dataframe_for_healpix: the rows between the index of the lowest listed
\* pixel and the index of the pixel after the highest one
_get_dataframe_for_healpix(indexed, pixels) ==
    LET left_bound == healpix_to_hipscat_id(HISTOGRAM_ORDER, pixels[1])
        right_bound == healpix_to_hipscat_id(HISTOGRAM_ORDER, pixels[Len(pixels)] + 1)
    IN  { i \in indexed : i >= left_bound /\ i < right_bound }

\* a partition of _ddf that holds its rows (delayed(df) of a pandas frame)
DataPartition(rows) == [task |-> "data", rows |-> rows]

\* ordinals that count from 1
LoaderOrdinalFromOne(k) == k

\* the ordinal _generate_dask_df_and_map gives the k-th entry of the pixel map
\* (enumerate counts from 0)
LoaderOrdinal(k) == k - 1

\* a Dask DataFrame: its deferred partitions and its schema (_meta)
DaskDataFrame(partitions, meta) == [partitions |-> partitions, meta |-> meta]

\* the columns of the input table (self.df.columns)
DfColumns == <<"id", "ra", "dec">>

\* _generate_dask_dataframe: dd.from_delayed of the frames, with the schema
_generate_dask_dataframe(pixel_dfs, schema) ==
    DaskDataFrame([k \in DOMAIN pixel_dfs |-> DataPartition(pixel_dfs[k])], schema)

\* a loader that keys the dictionary by the first histogram pixel of each entry
\* instead of the entry's own pixel
_generate_dask_df_and_map_first(indexed, pixel_map) ==
    [ddf |-> _generate_dask_dataframe(
                [k \in DOMAIN pixel_map |->
                    _get_dataframe_for_healpix(indexed, pixel_map[k].pixels)],
                DfColumns),
     ddf_pixel_map |->
        [p \in { HealpixPixel(HISTOGRAM_ORDER, pixel_map[k].pixels[1])
                    : k \in DOMAIN pixel_map } |->
            LoaderOrdinal(CHOOSE k \in DOMAIN pixel_map :
                            pixel_map[k].pixels[1] = p.pixel)]]

\* _generate_dask_df_and_map: one partition per entry of the pixel map, in the
\* order of the map, and the dictionary from the pixel to its ordinal
_generate_dask_df_and_map(indexed, pixel_map) ==
    [ddf |-> _generate_dask_dataframe(
                [k \in DOMAIN pixel_map |->
                    _get_dataframe_for_healpix(indexed, pixel_map[k].pixels)],
                DfColumns),
     ddf_pixel_map |->
        [p \in { pixel_map[k].pixel : k \in DOMAIN pixel_map } |->
            LoaderOrdinal(CHOOSE k \in DOMAIN pixel_map : pixel_map[k].pixel = p)]]

\* hc.catalog.Catalog(catalog_info, pixels)
HipscatCatalog(catalog_info, pixels) ==
    [catalog_info |-> catalog_info, pixels |-> pixels]

\* Catalog.__init__; map_id and hc_id are the identities of the dictionary and
\* of the hipscat structure the catalog holds
Catalog(ddf, ddf_pixel_map, hc_structure, map_id, hc_id) ==
    [ddf |-> ddf, ddf_pixel_map |-> ddf_pixel_map, hc_structure |-> hc_structure,
     map_id |-> map_id, hc_id |-> hc_id]

\* CatalogInfo(**kwargs)
CatalogInfo(catalog_name, catalog_type, epoch) ==
    [catalog_name |-> catalog_name, catalog_type |-> catalog_type,
     epoch |-> epoch, ra_column |-> "ra", dec_column |-> "dec"]

valid_catalog_types == {"object", "source"}

\* DataframeCatalogLoader.load_catalog
LoadedCatalog(t, catalog_info, lowest_order, threshold, id) ==
    LET indexed == _set_hipscat_index(t)
        pixel_map == _compute_pixel_map(t, lowest_order, threshold)
        built == _generate_dask_df_and_map(indexed, pixel_map)
        healpix_pixels == [k \in DOMAIN pixel_map |-> pixel_map[k].pixel]
    IN  Catalog(built.ddf, built.ddf_pixel_map,
                HipscatCatalog(catalog_info, healpix_pixels), id, id)

---------------------------------------------------------------------------
(* Catalog *)

\* an optional argument: None, or a value
NoneArg == [given |-> FALSE]
Some(v) == [given |-> TRUE, value |-> v]

NoCatalog == [none |-> TRUE]

Slots == {"left", "right", "result"}

\* Catalog.get_healpix_pixels
get_healpix_pixels(self) == self.hc_structure.pixels

\* Catalog.name
name(self) == self.hc_structure.catalog_info.catalog_name

Range(s) == { s[i] : i \in DOMAIN s }

\* a lookup that builds the pixel with its arguments swapped
get_partition_index_swapped(self, order, pixel) ==
    LET hp_pixel == HealpixPixel(pixel, order)
    IN  IF ~(hp_pixel \in DOMAIN self.ddf_pixel_map)
        THEN [status |-> "ValueError"]
        ELSE [status |-> "ok", value |-> self.ddf_pixel_map[hp_pixel]]

\* Catalog.get_partition_index: the ordinal of the pixel, or ValueError
get_partition_index(self, order, pixel) ==
    LET hp_pixel == HealpixPixel(order, pixel)
    IN  IF ~(hp_pixel \in DOMAIN self.ddf_pixel_map)
        THEN [status |-> "ValueError"]
        ELSE [status |-> "ok", value |-> self.ddf_pixel_map[hp_pixel]]

\* Catalog.get_partition: the partition at the ordinal of the pixel
get_partition(self, order, pixel) ==
    LET partition_index == get_partition_index(self, order, pixel)
    IN  IF partition_index.status # "ok"
        THEN partition_index
        ELSE [status |-> "ok", value |-> partition_index.value,
              partition |-> self.ddf.partitions[partition_index.value + 1]]

\* a check that rejects the boundary values of ra
_check_ra_dec_values_valid_strict(ra, dec) ==
    \/ ra <= -180 \/ ra >= 180
    \/ dec > 90 \/ dec < -90

\* Catalog._check_ra_dec_values_valid: TRUE when it raises
_check_ra_dec_values_valid(ra, dec) ==
    \/ ra < -180 \/ ra > 180
    \/ dec > 90 \/ dec < -90

\* the deferred call cone_filter(partition, ra, dec, radius, hc_structure)
ConeFilterTask(partition, ra, dec, radius) ==
    [task |-> "cone_filter", partition |-> partition,
     ra |-> ra, dec |-> dec, radius |-> radius]

\* the sub-list of list s at the positions keep, in the order of s
RECURSIVE SubList(_, _)
SubList(s, keep) ==
    IF s = << >> THEN << >>
    ELSE LET rest == SubList(Tail(s), { k - 1 : k \in keep \ {1} })
         IN  IF 1 \in keep THEN <<Head(s)>> \o rest ELSE rest

\* the position of x in list s
IndexOf(s, x) == CHOOSE i \in DOMAIN s : s[i] = x

\* a dictionary that counts the pixels from the end of the list
EnumerateMapFromEnd(pixels) ==
    [p \in Range(pixels) |-> Len(pixels) - IndexOf(pixels, p)]

\* the dictionary {pixel: i for i, pixel in enumerate(pixels)}
EnumerateMap(pixels) ==
    [p \in Range(pixels) |-> IndexOf(pixels, p) - 1]

\* a cone_search that stores the new dictionary in the catalog it is called on
cone_search_self_inplace(self, ddf_partition_map) ==
    [self EXCEPT !.ddf_pixel_map = ddf_partition_map]

\* the catalog cone_search is called on, as the call leaves it: the method
\* assigns no attribute of self and changes none of its objects
cone_search_self(self, ddf_partition_map) == self

\* Catalog.cone_search.  keep are the positions, in the catalog's pixel list, of
\* the pixels hipscat's filter_by_cone finds to overlap the cone; id is the
\* identity of the objects the call builds.  The answer holds self as the call
\* leaves it, the outcome and the catalog returned.
cone_search(self, ra, dec, radius, keep, id) ==
    IF radius < 0 \/ _check_ra_dec_values_valid(ra, dec)
    THEN [self |-> self, status |-> "ValueError"]
    ELSE LET filtered_hc_structure ==
                HipscatCatalog(self.hc_structure.catalog_info,
                               SubList(self.hc_structure.pixels, keep))
             pixels_in_cone == filtered_hc_structure.pixels
             partitions == self.ddf.partitions
             partitions_in_cone ==
                [i \in DOMAIN pixels_in_cone |->
                    partitions[self.ddf_pixel_map[pixels_in_cone[i]] + 1]]
             filtered_partitions ==
                [i \in DOMAIN partitions_in_cone |->
                    ConeFilterTask(partitions_in_cone[i], ra, dec, radius)]
             ddf_partition_map == EnumerateMap(pixels_in_cone)
         IN  IF filtered_partitions = << >>
             THEN \* dd.from_delayed rejects an empty list of partitions
                  [self |-> self, status |-> "TypeError"]
             ELSE [self |-> cone_search_self(self, ddf_partition_map),
                   status |-> "ok",
                   value |-> Catalog(DaskDataFrame(filtered_partitions, self.ddf.meta),
                                     ddf_partition_map, filtered_hc_structure,
                                     id, id)]

\* default suffixes that lack the underscore
default_suffixes_bare(self, other) == <<name(self), name(other)>>

\* the suffixes crossmatch uses when none are given
default_suffixes(self, other) == <<"_" \o name(self), "_" \o name(other)>>

\* the name crossmatch gives its result when none is given
default_output_catalog_name(self, other) == name(self) \o "_x_" \o name(other)

\* pixel a covers pixel b (a is b or an ancestor of b)
Covers(a, b) ==
    /\ a.order <= b.order
    /\ b.pixel \div 4^(b.order - a.order) = a.pixel

\* the pixel an aligned pair is joined at: the finer of the two
JoinPixel(a, b) == IF a.order >= b.order THEN a ELSE b

\* the deferred call of the crossmatch algorithm on one aligned pair of partitions
CrossmatchTask(left, right, left_pixel, right_pixel, suffixes) ==
    [task |-> "crossmatch", left |-> left, right |-> right,
     left_pixel |-> left_pixel, right_pixel |-> right_pixel, suffixes |-> suffixes]

\* the distance column of a crossmatch (AbstractCrossmatchAlgorithm.DISTANCE_COLUMN_NAME)
DISTANCE_COLUMN_NAME == "_DIST"

\* the columns renamed with a suffix
RenameColumns(columns, suffix) == [i \in DOMAIN columns |-> columns[i] \o suffix]

\* lsdb.dask.crossmatch_catalog_data: the inner alignment of the two pixel
\* trees, one deferred crossmatch per aligned pair in the ascending order of the
\* join pixels, and the dictionary from the join pixel to its ordinal
crossmatch_catalog_data(self, other, suffixes) ==
    LET pairs == { pr \in Range(get_healpix_pixels(self))
                            \X Range(get_healpix_pixels(other)) :
                        Covers(pr[1], pr[2]) \/ Covers(pr[2], pr[1]) }
        pixel_tree == SortPixels({ JoinPixel(pr[1], pr[2]) : pr \in pairs })
        pair(j) == CHOOSE pr \in pairs : JoinPixel(pr[1], pr[2]) = j
        partitions ==
            [k \in DOMAIN pixel_tree |->
                LET pr == pair(pixel_tree[k])
                IN  CrossmatchTask(
                        self.ddf.partitions[self.ddf_pixel_map[pr[1]] + 1],
                        other.ddf.partitions[other.ddf_pixel_map[pr[2]] + 1],
                        pr[1], pr[2], suffixes)]
        meta == RenameColumns(self.ddf.meta, suffixes[1])
                    \o RenameColumns(other.ddf.meta, suffixes[2])
                    \o <<DISTANCE_COLUMN_NAME>>
    IN  [ddf |-> DaskDataFrame(partitions, meta),
         ddf_map |-> EnumerateMap(pixel_tree),
         pixel_tree |-> pixel_tree]

\* a check that lets a tuple of more than two suffixes through
suffixes_rejected_short(suffixes) == Len(suffixes) < 2

\* a check that also rejects two equal suffixes
suffixes_rejected_equal(suffixes) ==
    Len(suffixes) # 2 \/ suffixes[1] = suffixes[2]

\* the check of the suffixes in Catalog.crossmatch: TRUE when it raises
suffixes_rejected(suffixes) == Len(suffixes) # 2

\* a result info whose dec_column takes the right suffix
new_catalog_info_right(self, other, output_catalog_name, suffixes) ==
    LET catalog_info == self.hc_structure.catalog_info
    IN  [catalog_info EXCEPT
            !.catalog_name = output_catalog_name,
            !.ra_column = catalog_info.ra_column \o suffixes[1],
            !.dec_column = catalog_info.dec_column \o suffixes[2]]

\* the catalog_info of the result of a crossmatch: dataclasses.replace of the
\* left catalog's info (suffixes[1] is Python's suffixes[0])
new_catalog_info(self, other, output_catalog_name, suffixes) ==
    LET catalog_info == self.hc_structure.catalog_info
    IN  [catalog_info EXCEPT
            !.catalog_name = output_catalog_name,
            !.ra_column = catalog_info.ra_column \o suffixes[1],
            !.dec_column = catalog_info.dec_column \o suffixes[1]]

\* Catalog.crossmatch.  suffixes and output_catalog_name are optional; id is the
\* identity of the objects the call builds.  The answer holds self and other as
\* the call leaves them, the outcome and the catalog returned.
crossmatch(self, other, suffixes, output_catalog_name, id) ==
    LET suffixes1 == IF ~suffixes.given THEN default_suffixes(self, other)
                     ELSE suffixes.value
    IN  IF suffixes_rejected(suffixes1)
        THEN [self |-> self, other |-> other, status |-> "ValueError"]
        ELSE LET output_catalog_name1 ==
                    IF ~output_catalog_name.given
                    THEN default_output_catalog_name(self, other)
                    ELSE output_catalog_name.value
                 data == crossmatch_catalog_data(self, other, suffixes1)
                 hc_catalog ==
                    HipscatCatalog(
                        new_catalog_info(self, other, output_catalog_name1, suffixes1),
                        data.pixel_tree)
             IN  [self |-> self, other |-> other, status |-> "ok",
                  value |-> Catalog(data.ddf, data.ddf_map, hc_catalog, id, id)]

\* the per-partition tasks a partition stands for: its own deferred call and
\* those of the partitions it is computed from (a loaded frame is no task)
RECURSIVE TasksOf(_)
TasksOf(partition) ==
    IF partition.task = "data" THEN {}
    ELSE IF partition.task = "cone_filter"
         THEN {partition} \cup TasksOf(partition.partition)
         ELSE {partition} \cup TasksOf(partition.left) \cup TasksOf(partition.right)

\* Catalog.compute (Dataset.compute): the tasks dask runs to realize the catalog
compute(self) ==
    UNION { TasksOf(self.ddf.partitions[i]) : i \in DOMAIN self.ddf.partitions }

\* cone_filter on the rows of a partition: the frames it may return, which
\* hold the rows that lie within the cone
cone_filter(rows) == SUBSET rows

\* the frames a partition may be realized to, each as the set of the index
\* values of its rows (a crossmatch is indexed by its left rows)
RECURSIVE Realized(_)
Realized(partition) ==
    IF partition.task = "data" THEN {partition.rows}
    ELSE IF partition.task = "cone_filter"
         THEN UNION { cone_filter(rows) : rows \in Realized(partition.partition) }
         ELSE UNION { SUBSET rows : rows \in Realized(partition.left) }

\* a cone_search that filters its partitions at once
cone_search_runs_eager(catalog) == compute(catalog)

\* what building a cone_search result runs of its partitions' tasks: the calls
\* of cone_filter are deferred, and from_delayed collects them without running
cone_search_runs(catalog) == {}

\* what building a crossmatch result runs of its partitions' tasks
crossmatch_runs(catalog) == {}

---------------------------------------------------------------------------
(* The default crossmatch algorithm on one aligned pair of partitions *)

\* the positions of the points: steps of 45 degrees along a great circle
SkyPositions == 0..4

\* the great-circle separation of two positions, in steps
separation(a, b) == IF a >= b THEN a - b ELSE b - a

\* the great-circle separation of s steps, in milliradians
arc == <<0, 785, 1571, 2356, 3142>>

\* the chord of the unit sphere under a separation of s steps, in thousandths
\* of the radius (2 sin(angle / 2)): what the Cartesian index measures
chord_distance(s) == <<0, 765, 1414, 1848, 2000>>[s + 1]

\* the great-circle separation of a chord (2 arcsin(chord / 2)), in milliradians
sky_distance(chord) ==
    arc[CHOOSE i \in DOMAIN arc : chord_distance(i - 1) = chord]

\* right point j comes before right point k in the answer of the nearest
\* neighbor search for left point l: the nearer first, and equidistant
\* candidates in the order ties of the search
Nearer(left, right, ties, l, j, k) ==
    LET dj == chord_distance(separation(left[l], right[j]))
        dk == chord_distance(separation(left[l], right[k]))
    IN  dj < dk \/ (dj = dk /\ ties[j] < ties[k])

\* the nearest neighbor search: for each left point its n_neighbors nearest
\* right points (all of them when there are fewer)
query(left, right, n_neighbors, ties) ==
    { pr \in (DOMAIN left) \X (DOMAIN right) :
        Cardinality({ k \in DOMAIN right :
                        Nearer(left, right, ties, pr[1], k, pr[2]) })
            < n_neighbors }

\* a threshold that is compared with the chord
within_threshold_chord(chord, d_thresh) == chord <= d_thresh

\* a pair is kept when its great-circle separation is within the threshold
within_threshold(chord, d_thresh) == sky_distance(chord) <= d_thresh

\* the rows of the crossmatch of two partitions: one row per left point and
\* matched right point, with the great-circle separation as the distance
kdtree_crossmatch(left, right, n_neighbors, d_thresh, ties) ==
    { [left |-> pr[1], right |-> pr[2],
       _DIST |-> sky_distance(chord_distance(separation(left[pr[1]], right[pr[2]])))] :
        pr \in { q \in query(left, right, n_neighbors, ties) :
                    within_threshold(
                        chord_distance(separation(left[q[1]], right[q[2]])),
                        d_thresh) } }

\* no crossmatch of partitions is set up
NoCrossmatch == [op |-> "none"]

---------------------------------------------------------------------------
(* The inputs of the calls *)

\* the keyword arguments the loader of each slot is given for its CatalogInfo
\* (the catalog names of the tests)
LoaderKwargs ==
    [left |-> [catalog_name |-> "small_sky", catalog_type |-> "object",
               epoch |-> "J2000"],
     right |-> [catalog_name |-> "small_sky_xmatch", catalog_type |-> "source",
                epoch |-> "J2015"]]
\* a catalog type the loader rejects
InvalidCatalogTypes == {"index"}
LowestOrders == 0..(HISTOGRAM_ORDER + 1)
Thresholds == 1..MaxRows
\* (ra, dec, radius): the corners of the domain, and one step outside of it in
\* each direction
ConeArgs ==
    {<<-180, -90, 0>>, <<180, 90, 0>>, <<0, 0, 1>>,
     <<-181, -90, 0>>, <<181, 90, 0>>, <<-180, -91, 0>>, <<180, 91, 0>>,
     <<180, 90, -1>>, <<-181, 91, -1>>}
SuffixArgs ==
    {NoneArg, Some(<<"_a", "_b">>), Some(<<"_a", "_a">>), Some(<<"", "_b">>),
     Some(<<"wrong">>), Some(<<"_a", "_b", "_c">>)}
OutputNames == {NoneArg, Some("out")}
QueryOrders == 0..HISTOGRAM_ORDER
\* the points of a partition, by row
Partitions == UNION { [1..n -> SkyPositions] : n \in 1..MaxRows }
NeighborCounts == 1..MaxRows
\* the distance thresholds, in milliradians
DistanceThresholds == {0, 785, 1500, 2000, 3142}
\* the orders a search may return equidistant candidates in
TieOrders(right) ==
    { f \in [DOMAIN right -> DOMAIN right] :
        \A j, k \in DOMAIN right : f[j] = f[k] => j = k }

---------------------------------------------------------------------------
(* The state machine *)

Init ==
    /\ df \in Tables
    /\ cats = [s \in Slots |-> NoCatalog]
    /\ nextId = 0
    /\ ret = [op |-> "init", status |-> "ok"]
    /\ executed = {}
    /\ xm = NoCrossmatch

\* the slot a loader may fill next: the left catalog first, then the right one
LoadSlot == IF cats["left"] = NoCatalog THEN "left" ELSE "right"

\* the largest bin of the histogram of the table
max_bin(t) ==
    LET histogram == generate_histogram(t)
    IN  CHOOSE m \in Range(histogram) : \A n \in Range(histogram) : n <= m

\* DataframeCatalogLoader(df, lowest_order, threshold, **kwargs).load_catalog()
load_catalog ==
    \E lowest_order \in LowestOrders, threshold \in Thresholds :
        /\ cats["right"] = NoCatalog
        /\ nextId < MaxCatalogs
        /\ LoaderKwargs[LoadSlot].catalog_type \in valid_catalog_types
        /\ lowest_order <= HISTOGRAM_ORDER
        /\ cats' = [cats EXCEPT ![LoadSlot] =
                        LoadedCatalog(df, CatalogInfo(LoaderKwargs[LoadSlot].catalog_name,
                                          LoaderKwargs[LoadSlot].catalog_type,
                                          LoaderKwargs[LoadSlot].epoch),
                                      lowest_order, threshold, nextId)]
        /\ nextId' = nextId + 1
        /\ ret' = [op |-> "load_catalog", slot |-> LoadSlot, status |-> "ok"]
        /\ executed' = {}
        /\ UNCHANGED <<df, xm>>

\* the loader raises ValueError: the catalog type is neither OBJECT nor SOURCE,
\* or the lowest order is above the histogram order, or (in the versions of
\* hipscat that reject it) a cell of the histogram is above the threshold
load_catalog_raises ==
    \E catalog_type \in valid_catalog_types \cup InvalidCatalogTypes,
       lowest_order \in LowestOrders, threshold \in Thresholds :
        /\ cats["right"] = NoCatalog
        /\ \/ ~(catalog_type \in valid_catalog_types)
           \/ lowest_order > HISTOGRAM_ORDER
           \/ max_bin(df) > threshold
        /\ ret' = [op |-> "load_catalog", slot |-> LoadSlot, status |-> "ValueError"]
        /\ executed' = {}
        /\ UNCHANGED <<df, cats, nextId, xm>>

\* catalog.get_partition(order, pixel)
get_partition_call ==
    \E slot \in Slots, order \in QueryOrders :
      \E pixel \in 0..npix(order) :
        /\ cats[slot] # NoCatalog
        /\ ret' = [op |-> "get_partition", slot |-> slot, order |-> order,
                   pixel |-> pixel, out |-> get_partition(cats[slot], order, pixel)]
        /\ executed' = {}
        /\ UNCHANGED <<df, cats, nextId, xm>>

\* result = catalog.cone_search(ra, dec, radius)
cone_search_call ==
    \E slot \in Slots, args \in ConeArgs :
      /\ cats[slot] # NoCatalog
      /\ nextId < MaxCatalogs
      /\ \E keep \in SUBSET (DOMAIN get_healpix_pixels(cats[slot])) :
            LET ra == args[1]
                dec == args[2]
                radius == args[3]
                r == cone_search(cats[slot], ra, dec, radius, keep, nextId)
            IN  /\ cats' = IF r.status = "ok"
                           THEN [[cats EXCEPT ![slot] = r.self]
                                    EXCEPT !["result"] = r.value]
                           ELSE [cats EXCEPT ![slot] = r.self]
                /\ nextId' = IF r.status = "ok" THEN nextId + 1 ELSE nextId
                /\ ret' = [op |-> "cone_search", slot |-> slot, ra |-> ra,
                           dec |-> dec, radius |-> radius, status |-> r.status]
                /\ executed' = IF r.status = "ok" THEN cone_search_runs(r.value)
                               ELSE {}
      /\ UNCHANGED <<df, xm>>

\* result = catalog.crossmatch(other, suffixes, output_catalog_name=...)
crossmatch_call ==
    \E slot \in {"left", "right"}, suffixes \in SuffixArgs,
       output_catalog_name \in OutputNames :
      LET other == IF slot = "left" THEN "right" ELSE "left"
          r == crossmatch(cats[slot], cats[other], suffixes, output_catalog_name,
                          nextId)
      IN  /\ cats[slot] # NoCatalog
          /\ cats[other] # NoCatalog
          /\ nextId < MaxCatalogs
          /\ cats' = IF r.status = "ok"
                     THEN [cats EXCEPT ![slot] = r.self, ![other] = r.other,
                                       !["result"] = r.value]
                     ELSE [cats EXCEPT ![slot] = r.self, ![other] = r.other]
          /\ nextId' = IF r.status = "ok" THEN nextId + 1 ELSE nextId
          /\ ret' = [op |-> "crossmatch", slot |-> slot, other |-> other,
                     suffixes |-> suffixes,
                     output_catalog_name |-> output_catalog_name,
                     status |-> r.status]
          /\ executed' = IF r.status = "ok" THEN crossmatch_runs(r.value) ELSE {}
          /\ UNCHANGED <<df, xm>>

\* catalog.compute()
compute_call ==
    \E slot \in Slots :
        /\ cats[slot] # NoCatalog
        /\ ret' = [op |-> "compute", slot |-> slot, status |-> "ok"]
        /\ executed' = compute(cats[slot])
        /\ UNCHANGED <<df, cats, nextId, xm>>

Next ==
    \/ load_catalog
    \/ load_catalog_raises
    \/ get_partition_call
    \/ cone_search_call
    \/ crossmatch_call
    \/ compute_call

Spec == Init /\ [][Next]_vars

---------------------------------------------------------------------------
(* The crossmatch of one pair of partitions under several thresholds *)

\* two partitions, the number of neighbors and the order of the search among
\* equidistant candidates are fixed; no crossmatch has run
InitCrossmatch ==
    /\ df = <<0>>
    /\ cats = [s \in Slots |-> NoCatalog]
    /\ nextId = 0
    /\ ret = [op |-> "init", status |-> "ok"]
    /\ executed = {}
    /\ \E left \in Partitions, right \in Partitions, n_neighbors \in NeighborCounts :
          \E ties \in TieOrders(right) :
            xm = [op |-> "init", left |-> left, right |-> right,
                  n_neighbors |-> n_neighbors, ties |-> ties]

\* the crossmatch algorithm runs on the pair with distance threshold d_thresh
kdtree_crossmatch_call ==
    \E d_thresh \in DistanceThresholds :
        /\ xm' = [op |-> "crossmatch", left |-> xm.left, right |-> xm.right,
                  n_neighbors |-> xm.n_neighbors, ties |-> xm.ties,
                  d_thresh |-> d_thresh,
                  out |-> kdtree_crossmatch(xm.left, xm.right, xm.n_neighbors,
                                            d_thresh, xm.ties)]
        /\ UNCHANGED <<df, cats, nextId, ret, executed>>

NextCrossmatch == kdtree_crossmatch_call

SpecCrossmatch == InitCrossmatch /\ [][NextCrossmatch]_vars

---------------------------------------------------------------------------
(* The claims *)

\* the last call was a crossmatch, and the catalogs it was called with
IsCrossmatch == ret.op = "crossmatch"
Left == cats[ret.slot]
Right == cats[ret.other]
Result == cats["result"]
info(catalog) == catalog.hc_structure.catalog_info

\* C1: a crossmatch whose suffixes do not have length 2 raises ValueError, and
\* it raises before anything is aligned or matched: no catalog is built or
\* bound, no object is allocated and no task is run.
C1_WrongSuffixLength ==
    [][ (ret'.op = "crossmatch" /\ ret'.suffixes.given
            /\ Len(ret'.suffixes.value) # 2)
        => /\ ret'.status = "ValueError"
           /\ cats' = cats
           /\ nextId' = nextId
           /\ executed' = {} ]_vars

C1_Witness ==
    /\ IsCrossmatch
    /\ ret.suffixes = Some(<<"wrong">>)
    /\ ret.status = "ValueError"
    /\ Result = NoCatalog

\* a pair of two distinct non-empty strings
DistinctNonEmptyPair(suffixes) ==
    /\ Len(suffixes) = 2
    /\ suffixes[1] # suffixes[2]
    /\ suffixes[1] # ""
    /\ suffixes[2] # ""

\* C2, as claimed: crossmatch accepts the suffixes it is given only when they
\* are two distinct non-empty strings, and raises ValueError for any other value.
C2_DistinctNonEmpty ==
    (IsCrossmatch /\ ret.suffixes.given)
        => (ret.status = "ok" <=> DistinctNonEmptyPair(ret.suffixes.value))

\* C2, amended: crossmatch checks the length of the suffixes and nothing else.
\* It raises ValueError exactly when the length is not 2; two equal suffixes
\* and empty suffixes are accepted and a catalog is returned.
C2_LengthOnly ==
    (IsCrossmatch /\ ret.suffixes.given)
        => /\ ret.status = "ValueError" <=> Len(ret.suffixes.value) # 2
           /\ ret.status = "ok" <=> Len(ret.suffixes.value) = 2
           /\ ret.status = "ok" =>
                /\ Result # NoCatalog
                /\ info(Result).ra_column
                      = info(Left).ra_column \o ret.suffixes.value[1]

C2_Witness ==
    /\ IsCrossmatch
    /\ ret.suffixes = Some(<<"_a", "_a">>)
    /\ ret.status = "ok"
    /\ info(Result).ra_column = "ra_a"

C4_ResultMetadata ==
    (IsCrossmatch /\ ret.status = "ok")
        => LET left_suffix == IF ret.suffixes.given THEN ret.suffixes.value[1]
                              ELSE "_" \o info(Left).catalog_name
               output_name ==
                  IF ret.output_catalog_name.given
                  THEN ret.output_catalog_name.value
                  ELSE info(Left).catalog_name \o "_x_" \o info(Right).catalog_name
           IN  /\ DOMAIN info(Result) = DOMAIN info(Left)
               /\ info(Result).catalog_name = output_name
               /\ info(Result).ra_column = info(Left).ra_column \o left_suffix
               /\ info(Result).dec_column = info(Left).dec_column \o left_suffix
               /\ \A f \in DOMAIN info(Left)
                            \ {"catalog_name", "ra_column", "dec_column"} :
                      info(Result)[f] = info(Left)[f]

C4_Witness ==
    /\ IsCrossmatch
    /\ ret.status = "ok"
    /\ ret.slot = "right"
    /\ ret.suffixes = Some(<<"_a", "_b">>)
    /\ info(Result) = [catalog_name |-> "out", catalog_type |-> "source",
                       epoch |-> "J2015", ra_column |-> "ra_a",
                       dec_column |-> "dec_a"]
    /\ info(Right).epoch = "J2000"

\* C5: get_partition raises ValueError exactly when the pixel is no key of the
\* pixel map, and otherwise returns the partition at the ordinal the map gives
\* the pixel; it succeeds for every pixel get_healpix_pixels lists.
C5_GetPartition ==
    /\ ret.op = "get_partition" =>
          LET self == cats[ret.slot]
              hp_pixel == HealpixPixel(ret.order, ret.pixel)
          IN  /\ ret.out.status = "ValueError"
                    <=> hp_pixel \notin DOMAIN self.ddf_pixel_map
              /\ ret.out.status = "ok"
                    <=> hp_pixel \in DOMAIN self.ddf_pixel_map
              /\ ret.out.status = "ok" =>
                    /\ ret.out.value = self.ddf_pixel_map[hp_pixel]
                    /\ ret.out.partition
                          = self.ddf.partitions[self.ddf_pixel_map[hp_pixel] + 1]
    /\ \A slot \in Slots :
          cats[slot] # NoCatalog =>
             \A p \in Range(get_healpix_pixels(cats[slot])) :
                get_partition(cats[slot], p.order, p.pixel).status = "ok"

C5_Witness ==
    /\ ret.op = "get_partition"
    /\ ret.out.status = "ok"
    /\ ret.order = 1
    /\ ret.out.value = 1
    /\ Len(cats[ret.slot].ddf.partitions) = 2

\* C6: cone_search raises ValueError exactly when radius < 0, or ra is outside
\* [-180, 180], or dec is outside [-90, 90] (the boundary values are accepted);
\* when it raises, no catalog is built or bound and no task is run.
C6_ConeArguments ==
    [][ ret'.op = "cone_search"
        => /\ ret'.status = "ValueError"
                <=> \/ ret'.radius < 0
                    \/ ret'.ra < -180 \/ ret'.ra > 180
                    \/ ret'.dec < -90 \/ ret'.dec > 90
           /\ ret'.status = "ValueError"
                => /\ cats' = cats
                   /\ nextId' = nextId
                   /\ executed' = {} ]_vars

C6_Witness ==
    /\ ret.op = "cone_search"
    /\ ret.ra = -180
    /\ ret.dec = -90
    /\ ret.radius = 0
    /\ ret.status = "ok"
    /\ Result # NoCatalog

\* the hipscat indices of pixel (order, pixel)
index_range(order, pixel) ==
    healpix_to_hipscat_id(order, pixel)..(healpix_to_hipscat_id(order, pixel + 1) - 1)

\* the rows of the loaded frame a partition is computed from
RECURSIVE SourceRows(_)
SourceRows(partition) ==
    IF partition.task = "data" THEN partition.rows
    ELSE IF partition.task = "cone_filter" THEN SourceRows(partition.partition)
    ELSE SourceRows(partition.left)

\* the depth of deferred calls of a partition
RECURSIVE Depth(_)
Depth(partition) ==
    IF partition.task = "data" THEN 0
    ELSE IF partition.task = "cone_filter" THEN 1 + Depth(partition.partition)
    ELSE 1 + Depth(partition.left)

\* a catalog built by load_catalog
IsLoaded(catalog) ==
    /\ catalog # NoCatalog
    /\ \A i \in DOMAIN catalog.ddf.partitions :
          catalog.ddf.partitions[i].task = "data"

\* a partition of a loaded frame, under any number of cone filters
RECURSIVE IsConePartition(_)
IsConePartition(partition) ==
    \/ partition.task = "data"
    \/ partition.task = "cone_filter" /\ IsConePartition(partition.partition)

\* a catalog built by load_catalog followed by cone_search calls
IsConeLineage(catalog) ==
    /\ catalog # NoCatalog
    /\ \A i \in DOMAIN catalog.ddf.partitions :
          IsConePartition(catalog.ddf.partitions[i])

\* C7: in every catalog reached by load_catalog and cone_search calls the
\* pixel map is a bijection from the catalog's pixels onto the ordinals
\* 0..n-1, and the partition at the ordinal of a pixel holds that pixel's rows.
C7_PixelMapBijection ==
    \A slot \in Slots :
        IsConeLineage(cats[slot]) =>
            LET self == cats[slot]
                map == self.ddf_pixel_map
                n == Len(self.ddf.partitions)
            IN  /\ DOMAIN map = Range(get_healpix_pixels(self))
                /\ Len(get_healpix_pixels(self)) = n
                /\ { map[p] : p \in DOMAIN map } = 0..(n - 1)
                /\ \A p, q \in DOMAIN map : map[p] = map[q] => p = q
                /\ \A p \in DOMAIN map :
                      SourceRows(self.ddf.partitions[map[p] + 1])
                          = _set_hipscat_index(df) \cap index_range(p.order, p.pixel)

C7_Witness ==
    /\ ret.op = "cone_search"
    /\ ret.status = "ok"
    /\ ret.slot = "left"
    /\ Len(cats["left"].ddf.partitions) = 2
    /\ Len(Result.ddf.partitions) = 1
    /\ \E p \in DOMAIN Result.ddf_pixel_map :
          /\ Result.ddf_pixel_map[p] = 0
          /\ cats["left"].ddf_pixel_map[p] = 1

\* every value of the hipscat index
IndexDomain == 0..(healpix_to_hipscat_id(HISTOGRAM_ORDER, npix(HISTOGRAM_ORDER)) - 1)

\* the index ranges of the entries of a pixel map do not overlap
DisjointRanges(map) ==
    \A p, q \in DOMAIN map :
        p # q => index_range(p.order, p.pixel) \cap index_range(q.order, q.pixel) = {}

\* C8, as claimed: in a catalog built by load_catalog the index ranges of the
\* entries of the pixel map are pairwise disjoint and their union is the whole
\* domain of the index.
C8_CoversDomain ==
    \A slot \in Slots :
        IsLoaded(cats[slot]) =>
            LET map == cats[slot].ddf_pixel_map
            IN  /\ DisjointRanges(map)
                /\ UNION { index_range(p.order, p.pixel) : p \in DOMAIN map }
                      = IndexDomain

\* C8, amended: the index ranges of the entries are pairwise disjoint and the
\* index of every row of the table lies in exactly one of them; a pixel that
\* holds no row has no entry, so the union is the footprint of the table and
\* not the whole domain of the index.
C8_CoversRows ==
    \A slot \in Slots :
        IsLoaded(cats[slot]) =>
            LET map == cats[slot].ddf_pixel_map
                rows == _set_hipscat_index(df)
            IN  /\ DisjointRanges(map)
                /\ \A i \in rows :
                      Cardinality({ p \in DOMAIN map :
                                      i \in index_range(p.order, p.pixel) }) = 1
                /\ \A p \in DOMAIN map :
                      rows \cap index_range(p.order, p.pixel) # {}

C8_Witness ==
    /\ ret.op = "load_catalog"
    /\ ret.status = "ok"
    /\ IsLoaded(cats["left"])
    /\ Cardinality(DOMAIN cats["left"].ddf_pixel_map) = 2
    /\ UNION { index_range(p.order, p.pixel) : p \in DOMAIN cats["left"].ddf_pixel_map }
          # IndexDomain

\* C9: cone_search and crossmatch leave the catalogs they are called with as
\* they were, whether they return or raise, and the catalog they return has a
\* pixel map and a structure of its own: objects that no catalog held before.
C9_NoMutation ==
    [][ ret'.op \in {"cone_search", "crossmatch"}
        => /\ \A slot \in {"left", "right"} : cats'[slot] = cats[slot]
           /\ ret'.status # "ok" => cats' = cats
           /\ ret'.status = "ok" =>
                \A slot \in Slots :
                    cats[slot] # NoCatalog =>
                        /\ cats'["result"].map_id # cats[slot].map_id
                        /\ cats'["result"].hc_id # cats[slot].hc_id ]_vars

C9_Witness ==
    /\ ret.op = "cone_search"
    /\ ret.status = "ok"
    /\ ret.slot = "left"
    /\ Result.map_id # cats["left"].map_id
    /\ DOMAIN Result.ddf_pixel_map # DOMAIN cats["left"].ddf_pixel_map

C11_ThresholdMonotone ==
    [][ xm'.op = "crossmatch"
        => /\ \A row \in xm'.out : row._DIST <= xm'.d_thresh
           /\ (xm.op = "crossmatch" /\ xm.d_thresh <= xm'.d_thresh)
                => /\ xm.out \subseteq xm'.out
                   /\ Cardinality(xm.out) <= Cardinality(xm'.out) ]_vars

\* a threshold between the chord and the arc of the second nearest pair: the
\* nearer pair is kept and the other is dropped
C11_Witness ==
    /\ xm.op = "crossmatch"
    /\ xm.n_neighbors = 2
    /\ xm.d_thresh = 1500
    /\ Cardinality(xm.out) = 1
    /\ \E j \in DOMAIN xm.right : separation(xm.left[1], xm.right[j]) = 2

\* C12: the catalog cone_search returns has one partition per retained pixel
\* and no other: the partition at ordinal i is the cone filter of the partition
\* that the pixel map of the catalog searched gives the i-th retained pixel,
\* the new pixel map gives that pixel the ordinal i, a pixel that is not
\* retained has no partition, and the rows of a retained pixel are among the
\* rows the same pixel has in the catalog searched.
C12_ConePartitions ==
    [][ (ret'.op = "cone_search" /\ ret'.status = "ok")
        => LET source == cats[ret'.slot]
               out == cats'["result"]
               pixels == get_healpix_pixels(out)
           IN  /\ Len(out.ddf.partitions) = Len(pixels)
               /\ DOMAIN out.ddf_pixel_map = Range(pixels)
               /\ Range(pixels) \subseteq Range(get_healpix_pixels(source))
               /\ \A i, j \in DOMAIN pixels : pixels[i] = pixels[j] => i = j
               /\ \A i \in DOMAIN pixels :
                     LET found == get_partition(source, pixels[i].order,
                                                pixels[i].pixel)
                     IN  /\ found.status = "ok"
                         /\ get_partition_index(out, pixels[i].order,
                                                pixels[i].pixel)
                               = [status |-> "ok", value |-> i - 1]
                         /\ out.ddf.partitions[i]
                               = ConeFilterTask(found.partition, ret'.ra,
                                                ret'.dec, ret'.radius)
                         /\ \A rows \in Realized(out.ddf.partitions[i]) :
                               \E kept \in Realized(found.partition) :
                                   rows \subseteq kept
               /\ \A p \in Range(get_healpix_pixels(source)) \ Range(pixels) :
                     get_partition(out, p.order, p.pixel).status = "ValueError" ]_vars

\* a cone that retains the two pixels of a catalog of two partitions
C12_Witness ==
    /\ ret.op = "cone_search"
    /\ ret.status = "ok"
    /\ ret.slot = "left"
    /\ Len(cats["left"].ddf.partitions) = 2
    /\ Len(Result.ddf.partitions) = 2
    /\ Result.ddf.partitions[2].partition = cats["left"].ddf.partitions[2]
    /\ Result.ddf.partitions[2].partition.rows # {}

\* the (lowest_order, threshold) a loader of the table builds the catalog with
LoaderArgs(catalog) ==
    { args \in LowestOrders \X Thresholds :
        /\ args[1] <= HISTOGRAM_ORDER
        /\ LoadedCatalog(df, info(catalog), args[1], args[2], catalog.map_id)
              = catalog }

\* the indices between the lowest and the highest pixel of a list of histogram
\* pixels: [index(H, first), index(H, last + 1))
ListedRange(pixels) ==
    healpix_to_hipscat_id(HISTOGRAM_ORDER, pixels[1])
        ..(healpix_to_hipscat_id(HISTOGRAM_ORDER, pixels[Len(pixels)] + 1) - 1)

\* every row of the table is in exactly one partition of the catalog
RowsConserved(catalog) ==
    LET partitions == catalog.ddf.partitions
    IN  /\ UNION { partitions[i].rows : i \in DOMAIN partitions }
              = _set_hipscat_index(df)
        /\ Cardinality(_set_hipscat_index(df)) = Len(df)
        /\ \A i, j \in DOMAIN partitions :
              i # j => partitions[i].rows \cap partitions[j].rows = {}

====
